---------------------------- MODULE Spec2Model ----------------------------
(***************************************************************************)
(* Model of the lunch-menu notifier: the date parser (parse_date), the     *)
(* today test (is_today), the per-restaurant scrape (scrape_menu) and the  *)
(* two entry points (lunch_menu_playwright.py main, with the retry loop,   *)
(* and lunch_menu.py main, a single pass).                                 *)
(*                                                                         *)
(* Texts are sequences of one-character strings.  The Korean date markers  *)
(* are written with ASCII stand-ins: "Y" is U+B144 (nyeon, year), "M" is   *)
(* U+C6D4 (wol, month), "D" is U+C77C (il, day).  "x" stands for any       *)
(* character that is neither a digit, whitespace, a marker, "." nor "/".   *)
(* A date is the tuple <<year, month, day>>; Python's None is <<>>.        *)
(***************************************************************************)
EXTENDS Integers, Sequences, FiniteSets, TLC

\* ------------------------------------------------------------- bounds

\* Longest text of the parser specification, in fragments.
MaxFrags == 2

\* How many times the local calendar day may change during the sleeps of a run.
MaxRollover == 1

\* Largest retry budget explored besides the program's own MAX_RETRIES_CODE.
MaxBudget == 2

\* ---------------------------------------------------------- calendar

None == <<>>

\* datetime.MINYEAR and datetime.MAXYEAR: the years datetime() accepts.
MINYEAR == 1
MAXYEAR == 9999

IsLeap(y) == (y % 4 = 0) /\ ((y % 100 # 0) \/ (y % 400 = 0))

DaysInMonth(y, m) ==
    IF m \in {4, 6, 9, 11} THEN 30
    ELSE IF m = 2 THEN (IF IsLeap(y) THEN 29 ELSE 28)
    ELSE 31

\* Faulty variant of ValidDate: the day is checked against 31 in every month.
ValidDateAnyMonth31(y, m, d) ==
    /\ y >= MINYEAR /\ y <= MAXYEAR
    /\ m >= 1 /\ m <= 12
    /\ d >= 1 /\ d <= 31

\* datetime(y, m, d) succeeds; otherwise it raises ValueError.
ValidDate(y, m, d) ==
    /\ y >= MINYEAR /\ y <= MAXYEAR
    /\ m >= 1 /\ m <= 12
    /\ d >= 1 /\ d <= DaysInMonth(y, m)

\* The calendar day after dt (the clock passing midnight).
NextDay(dt) ==
    IF dt[3] < DaysInMonth(dt[1], dt[2]) THEN <<dt[1], dt[2], dt[3] + 1>>
    ELSE IF dt[2] < 12 THEN <<dt[1], dt[2] + 1, 1>>
    ELSE <<dt[1] + 1, 1, 1>>

\* ------------------------------------------------------------- texts

Digits == {"0", "1", "2", "3", "4", "5", "6", "7", "8", "9"}

IsDigit(c) == c \in Digits

\* \s of the re module: blank and newline are the two whitespace characters
\* of the model's alphabet.
IsSpace(c) == c \in {" ", "\n"}

\* int() of one decimal digit.
DigitVal(c) ==
    CASE c = "0" -> 0 [] c = "1" -> 1 [] c = "2" -> 2 [] c = "3" -> 3
      [] c = "4" -> 4 [] c = "5" -> 5 [] c = "6" -> 6 [] c = "7" -> 7
      [] c = "8" -> 8 [] c = "9" -> 9

\* The character at position i (1-based), or "" past the end of the text.
CharAt(t, i) == IF i >= 1 /\ i <= Len(t) THEN t[i] ELSE ""

\* \d{n} matches at position i.
DigitsAt(t, i, n) == \A k \in 0..(n - 1) : IsDigit(CharAt(t, i + k))

\* int(m.group(k)) of the n digits starting at position i.
RECURSIVE ToInt(_, _, _)
ToInt(t, i, n) ==
    IF n = 0 THEN 0
    ELSE 10 * ToInt(t, i, n - 1) + DigitVal(t[i + n - 1])

\* \s* at position i: the position after the whitespace run.  The token that
\* follows \s* in every pattern is \d, which no whitespace matches, so the
\* greedy run is the only length the engine can succeed with.
RECURSIVE SkipSpace(_, _)
SkipSpace(t, i) ==
    IF IsSpace(CharAt(t, i)) THEN SkipSpace(t, i + 1) ELSE i

\* (\d{1,2}) followed by the literal c, at position i: the number of digits
\* taken (greedy: two before one), or 0 when neither length is followed by c.
TakeBefore(t, i, c) ==
    IF DigitsAt(t, i, 2) /\ CharAt(t, i + 2) = c THEN 2
    ELSE IF DigitsAt(t, i, 1) /\ CharAt(t, i + 1) = c THEN 1
    ELSE 0

\* (\d{1,2}) at the end of a pattern, at position i: greedy, two digits when
\* there are two, else one, else 0 (no match).
TakeLast(t, i) ==
    IF DigitsAt(t, i, 2) THEN 2 ELSE IF DigitsAt(t, i, 1) THEN 1 ELSE 0

\* str.strip(): leading and trailing whitespace removed.
RECURSIVE LStrip(_)
LStrip(t) ==
    IF t # <<>> /\ IsSpace(Head(t)) THEN LStrip(Tail(t)) ELSE t

RECURSIVE RStrip(_)
RStrip(t) ==
    IF t # <<>> /\ IsSpace(t[Len(t)]) THEN RStrip(SubSeq(t, 1, Len(t) - 1)) ELSE t

Strip(t) == RStrip(LStrip(t))

\* ---------------------------------------------------------- patterns

\* re.search found nothing.
NoMatch == <<>>

\* M\s*(\d{1,2})D: the day of a month-day pair whose month is the n1 digits
\* at position j, read from position k with n2 digits.
DayPart(t, j, n1, k, n2) ==
    IF n2 > 0 THEN <<ToInt(t, j, n1), ToInt(t, k, n2)>> ELSE NoMatch

DayFrom(t, j, n1, k) == DayPart(t, j, n1, k, TakeBefore(t, k, "D"))

\* (\d{1,2})M\s*(\d{1,2})D with the month's n1 digits at position j.
MonthPart(t, j, n1) ==
    IF n1 > 0 THEN DayFrom(t, j, n1, SkipSpace(t, j + n1 + 1)) ELSE NoMatch

\* The year of the full pattern, at position i, put before a month-day match.
WithYear(t, i, md) ==
    IF md = NoMatch THEN NoMatch ELSE <<ToInt(t, i, 4), md[1], md[2]>>

\* The rest of the full pattern after (\d{4})Y\s*, the month at position j.
FullMonth(t, i, j) == WithYear(t, i, MonthPart(t, j, TakeBefore(t, j, "M")))

\* (\d{1,2})sep(\d{1,2}) with the month's n1 digits at position i and the
\* day's n2 digits after the separator.
SepDay(t, i, n1, n2) ==
    IF n2 > 0 THEN <<ToInt(t, i, n1), ToInt(t, i + n1 + 1, n2)>> ELSE NoMatch

SepMonth(t, i, n1) ==
    IF n1 > 0 THEN SepDay(t, i, n1, TakeLast(t, i + n1 + 1)) ELSE NoMatch

\* Pattern 1, (\d{4})Y\s*(\d{1,2})M\s*(\d{1,2})D, tried at position i: the
\* groups as integers <<year, month, day>>, or NoMatch.
FullAt(t, i) ==
    IF DigitsAt(t, i, 4) /\ CharAt(t, i + 4) = "Y"
    THEN FullMonth(t, i, SkipSpace(t, i + 5))
    ELSE NoMatch

\* Pattern 2, (\d{1,2})M\s*(\d{1,2})D, tried at position i: <<month, day>>.
MonthDayAt(t, i) == MonthPart(t, i, TakeBefore(t, i, "M"))

\* Patterns 3 and 4, (\d{1,2})sep(\d{1,2}) with sep "." or "/", tried at
\* position i: <<month, day>>.
SepAt(t, i, sep) == SepMonth(t, i, TakeBefore(t, i, sep))

\* The k-th pattern of the list tried at position i.
PatternAt(k, t, i) ==
    CASE k = 1 -> FullAt(t, i)
      [] k = 2 -> MonthDayAt(t, i)
      [] k = 3 -> SepAt(t, i, ".")
      [] k = 4 -> SepAt(t, i, "/")

\* The match at the least of the positions `hits` where pattern k matches.
FirstOf(k, t, hits) ==
    IF hits = {} THEN NoMatch
    ELSE PatternAt(k, t, CHOOSE i \in hits : \A j \in hits : i <= j)

LastOf(k, t, hits) ==
    IF hits = {} THEN NoMatch
    ELSE PatternAt(k, t, CHOOSE i \in hits : \A j \in hits : j <= i)

\* Faulty variant of Search: the last match in the text instead of the first.
SearchLast(k, t) ==
    LastOf(k, t, {i \in 1..Len(t) : PatternAt(k, t, i) # NoMatch})

\* re.search(pattern k, text): the groups of the leftmost match, or NoMatch.
Search(k, t) ==
    FirstOf(k, t, {i \in 1..Len(t) : PatternAt(k, t, i) # NoMatch})

\* Faulty variant of Fields: the year of a date without one is written into
\* the program instead of read from the clock.
FieldsFixedYear(k, g, now) ==
    IF k = 1 THEN <<g[1], g[2], g[3]>> ELSE <<2026, g[1], g[2]>>

\* The arguments the k-th lambda passes to datetime(): the year is group 1
\* for the full pattern and datetime.now().year for the others.
Fields(k, g, now) ==
    IF k = 1 THEN <<g[1], g[2], g[3]>> ELSE <<now[1], g[1], g[2]>>

\* datetime(f[1], f[2], f[3]): the date, or None for a ValueError.
Construct(f) == IF ValidDate(f[1], f[2], f[3]) THEN f ELSE None

\* Number of entries of the patterns list.
NumPatterns == 4

\* Faulty variant of TryPatterns: a ValueError ends the loop (break in place
\* of continue).
RECURSIVE TryPatternsBreak(_, _, _)
TryPatternsBreak(k, t, now) ==
    IF k > NumPatterns THEN None
    ELSE IF Search(k, t) = NoMatch THEN TryPatternsBreak(k + 1, t, now)
    ELSE Construct(Fields(k, Search(k, t), now))

\* What a call that raised ValueError is recorded as.
ValueError == <<"ValueError">>

\* Faulty variant of TryPatterns: the ValueError of datetime() is not caught
\* and leaves parse_date.
RECURSIVE TryPatternsRaise(_, _, _)
TryPatternsRaise(k, t, now) ==
    IF k > NumPatterns THEN None
    ELSE IF Search(k, t) = NoMatch THEN TryPatternsRaise(k + 1, t, now)
    ELSE IF Construct(Fields(k, Search(k, t), now)) # None
         THEN Construct(Fields(k, Search(k, t), now))
         ELSE ValueError

\* The for loop of parse_date from the k-th pattern on: the first pattern
\* that matches and whose fields datetime() accepts decides; a ValueError
\* moves on to the next pattern.
RECURSIVE TryPatterns(_, _, _)
TryPatterns(k, t, now) ==
    IF k > NumPatterns THEN None
    ELSE IF Search(k, t) = NoMatch THEN TryPatterns(k + 1, t, now)
    ELSE IF Construct(Fields(k, Search(k, t), now)) # None
         THEN Construct(Fields(k, Search(k, t), now))
         ELSE TryPatterns(k + 1, t, now)

\* MenuScraper.parse_date(text), with the clock reading `now`.
parse_date(t, now) == TryPatterns(1, t, now)

\* Faulty variant of is_today: the year is not compared.
is_today_no_year(date, now) ==
    IF date = None THEN FALSE
    ELSE date[2] = now[2] /\ date[3] = now[3]

\* MenuScraper.is_today(date), with the clock reading `now`.
is_today(date, now) ==
    IF date = None THEN FALSE ELSE date = now

\* ------------------------------------------------------------ records

\* str() of one decimal digit.
DigitChar(n) ==
    CASE n = 0 -> "0" [] n = 1 -> "1" [] n = 2 -> "2" [] n = 3 -> "3"
      [] n = 4 -> "4" [] n = 5 -> "5" [] n = 6 -> "6" [] n = 7 -> "7"
      [] n = 8 -> "8" [] n = 9 -> "9"

\* The decimal digits of n >= 0, without padding.
RECURSIVE Dec(_)
Dec(n) == IF n < 10 THEN <<DigitChar(n)>> ELSE Dec(n \div 10) \o <<DigitChar(n % 10)>>

\* %m and %d: two digits, zero padded.
Pad2(n) == <<DigitChar(n \div 10), DigitChar(n % 10)>>

\* date.strftime('%Y-%m-%d') (the C library's %Y does not pad the year).
strftime(date) == Dec(date[1]) \o <<"-">> \o Pad2(date[2]) \o <<"-">> \o Pad2(date[3])

\* The text a record carries when no date was resolved ("date unknown").
DateUnknown == <<"?">>

\* The restaurants list of main, in configured order.  The display names
\* are transliterated.
restaurants ==
    << [name |-> "wang-ui-bapsang",  date_in_post |-> TRUE],
       [name |-> "chakhan-hansik",   date_in_post |-> TRUE],
       [name |-> "one-table",        date_in_post |-> FALSE] >>

\* extract_post_date(html): the stripped text of the title tag, or None when
\* the page has no title tag.  A text is wrapped (<<text>>) so that the empty
\* title and None differ.
extract_post_date(page) ==
    IF page.has_title THEN <<Strip(page.title)>> ELSE None

\* extract_text_from_image(image): the OCR lines joined, or "" when the OCR
\* engine's readtext raises.
extract_text_from_image(page) ==
    IF page.ocr_ok THEN page.ocr ELSE <<>>

\* if post_title: menu_date = self.parse_date(post_title)
TitleDate(post_title, now) ==
    IF post_title # None /\ post_title[1] # <<>>
    THEN parse_date(post_title[1], now)
    ELSE None

\* Faulty variant of OcrDate: the OCR text's date replaces the title's.
OcrDateAlways(ocr_only, menu_date, page, now) ==
    parse_date(extract_text_from_image(page), now)

\* if not restaurant.date_in_post or menu_date is None:
\*     menu_date = self.parse_date(ocr_text)
OcrDate(ocr_only, menu_date, page, now) ==
    IF ocr_only \/ menu_date = None
    THEN parse_date(extract_text_from_image(page), now)
    ELSE menu_date

\* Faulty variant of ResolveDate: the post title is read for every restaurant.
ResolveDateAlwaysTitle(restaurant, page, now) ==
    OcrDate(FALSE, TitleDate(extract_post_date(page), now), page, now)

\* Steps 4 and 5 of scrape_menu: menu_date.  The post title is parsed only
\* for a restaurant with date_in_post and only when it is there and not
\* empty; the OCR text is parsed when date_in_post is false or the title gave
\* no date.
ResolveDate(restaurant, page, now) ==
    OcrDate(~restaurant.date_in_post,
            IF restaurant.date_in_post
            THEN TitleDate(extract_post_date(page), now)
            ELSE None,
            page, now)

\* The dictionary scrape_menu builds (image_url and image, opaque handles,
\* are left out).
Result(name, menu_date, ocr_text, now) ==
    [restaurant |-> name,
     date       |-> IF menu_date # None THEN strftime(menu_date) ELSE DateUnknown,
     is_today   |-> is_today(menu_date, now),
     menu_text  |-> ocr_text]

\* Steps 4 to 6 of scrape_menu.
MakeResult(restaurant, page, now) ==
    Result(restaurant.name, ResolveDate(restaurant, page, now),
           extract_text_from_image(page), now)

\* Faulty variant of scrape_raises: a failed readtext is not caught in
\* extract_text_from_image and escapes scrape_menu.
scrape_raises_on_ocr_failure(page) ==
    page.html /\ (page.raises \/ (page.image_url /\ page.image /\ ~page.ocr_ok))

\* An exception escapes scrape_menu.  fetch_page_with_playwright and
\* download_image catch their own, so one can only escape once the page
\* was fetched (the HTML parser, the OCR engine's start, the image resize).
scrape_raises(page) == page.html /\ page.raises

\* Faulty variant of scrape_menu: a failed image download is not noticed.
scrape_menu_no_image_check(restaurant, page, now) ==
    IF ~page.html THEN None
    ELSE IF ~page.image_url THEN None
    ELSE <<MakeResult(restaurant, page, now)>>

\* Faulty variant of scrape_menu: no record when no date was resolved.
scrape_menu_none_without_date(restaurant, page, now) ==
    IF ~page.html THEN None
    ELSE IF ~page.image_url THEN None
    ELSE IF ~page.image THEN None
    ELSE IF ResolveDate(restaurant, page, now) = None THEN None
    ELSE <<MakeResult(restaurant, page, now)>>

\* MenuScraper.scrape_menu(restaurant) when it returns: None, or the result
\* wrapped (<<result>>).
scrape_menu(restaurant, page, now) ==
    IF ~page.html THEN None
    ELSE IF ~page.image_url THEN None
    ELSE IF ~page.image THEN None
    ELSE <<MakeResult(restaurant, page, now)>>

\* What one scrape came to, for the log of an attempt.
Outcome(page) ==
    IF ~page.html THEN "fetch_failed"
    ELSE IF page.raises THEN "raised"
    ELSE IF ~page.image_url THEN "no_image_url"
    ELSE IF ~page.image THEN "download_failed"
    ELSE "record"

\* -------------------------------------------------------------- state

VARIABLES
    pc,           \* where the run is: "start", "scrape", "evaluate", "sleep",
                  \* "aborted", "success", "exhausted", "finished"; "call" and
                  \* "return" in the specifications of single functions
    entry,        \* the entry point run: "playwright" (retry loop) or "basic"
    env,          \* os.environ: SENDER_EMAIL, SENDER_PASSWORD, RECIPIENT_EMAIL
    maxAttempts,  \* MAX_RETRIES of the run
    attempt,      \* the loop variable of the retry loop (0 before the loop)
    idx,          \* index in restaurants of the next restaurant to scrape
    results,      \* the results list of the current attempt
    calls,        \* log: what each scrape of the current attempt came to
    sleeps,       \* log: number of time.sleep(RETRY_INTERVAL) calls made
    sent,         \* log: the calls of send_menu_notification, in order
    today,        \* the clock: datetime.now() as <<year, month, day>>
    rollovers,    \* how many times the clock passed midnight in this run
    produced,     \* history: names of the restaurants that gave a record in
                  \* some attempt of the run so far
    arg,          \* the argument of the function under "call"
    ret           \* its result under "return"

vars == <<pc, entry, env, maxAttempts, attempt, idx, results, calls, sleeps,
          sent, today, rollovers, produced, arg, ret>>

ctl == <<entry, env, maxAttempts, attempt, idx, results, calls, sleeps, sent,
         rollovers, produced>>

\* The run's variables where no run is going on.
NoRun ==
    /\ entry = "none" /\ env = <<>> /\ maxAttempts = 0 /\ attempt = 0
    /\ idx = 0 /\ results = <<>> /\ calls = <<>> /\ sleeps = 0 /\ sent = <<>>
    /\ rollovers = 0 /\ produced = {}

\* ----------------------------------------------- parse_date on its own

\* Pieces the parser's input texts are put together from.
Fragments ==
    { <<"2","0","2","6","Y","0","2","M","0","5","D">>,        \* full, valid
      <<"2","0","2","5","Y"," ","2","M"," ","5","D">>,        \* full, spaced
      <<"2","0","2","6","Y","1","3","M","0","5","D">>,        \* full, month 13
      <<"2","0","2","5","Y","2","M","2","9","D">>,            \* 29 Feb, no leap
      <<"2","0","2","4","Y","2","M","2","9","D">>,            \* 29 Feb, leap
      <<"0","0","0","0","Y","1","M","1","D">>,                \* year 0
      <<"2","M","5","D">>,
      <<"1","2","M","\n","3","1","D">>,
      <<"1","3","M","1","D">>,
      <<"2",".","5">>,
      <<"0","2",".","3","0">>,
      <<"1","2","/","3","1">>,
      <<"0","/","5">>,
      <<"2","/","4">>,
      <<"x">>, <<" ">>, <<"1">> }

\* Concatenation of a sequence of texts.
RECURSIVE Concat(_)
Concat(fs) == IF fs = <<>> THEN <<>> ELSE Head(fs) \o Concat(Tail(fs))

\* The texts parse_date is called with: up to MaxFrags fragments in a row.
Texts == {Concat(fs) : fs \in UNION {[1..n -> Fragments] : n \in 0..MaxFrags}}

\* The days the clock may show at the start.
Clocks == { <<2026, 2, 5>>, <<2025, 12, 31>>, <<2024, 2, 29>> }

InitParse ==
    /\ pc = "call"
    /\ arg \in Texts
    /\ today \in Clocks
    /\ ret = None
    /\ NoRun

\* One call of parse_date(arg).
CallParseDate ==
    /\ pc = "call"
    /\ ret' = parse_date(arg, today)
    /\ pc' = "return"
    /\ UNCHANGED <<arg, today, ctl>>

NextParse == CallParseDate

ParseSpec == InitParse /\ [][NextParse]_vars

\* ---------------------------------------------- scrape_menu on its own

\* The texts a page's title and its image may hold.
PageTexts == Fragments \cup {<<>>, <<" ", "2", "M", "5", "D", "\n">>}

\* The pages scrape_menu may meet: one for each way to fail before the texts
\* are read, and every pair of title and image text, the image read by the
\* OCR engine or not (ocr is what the image shows, ocr_ok whether readtext
\* gets it).
ScrapePages ==
    { [html |-> h, raises |-> FALSE, image_url |-> u, image |-> g,
       has_title |-> FALSE, title |-> <<>>, ocr_ok |-> FALSE, ocr |-> <<>>] :
          h \in BOOLEAN, u \in BOOLEAN, g \in BOOLEAN }
    \cup
    { [html |-> TRUE, raises |-> x, image_url |-> TRUE, image |-> TRUE,
       has_title |-> TRUE, title |-> t, ocr_ok |-> k, ocr |-> o] :
          x \in BOOLEAN, t \in PageTexts, k \in BOOLEAN, o \in PageTexts }
    \cup
    { [html |-> TRUE, raises |-> FALSE, image_url |-> TRUE, image |-> TRUE,
       has_title |-> ht, title |-> <<>>, ocr_ok |-> ok, ocr |-> <<>>] :
          ht \in BOOLEAN, ok \in BOOLEAN }
    \cup
    { [html |-> TRUE, raises |-> FALSE, image_url |-> TRUE, image |-> TRUE,
       has_title |-> FALSE, title |-> <<>>, ocr_ok |-> TRUE, ocr |-> o] :
          o \in PageTexts }

InitScrape ==
    /\ pc = "call"
    /\ arg \in [restaurant : {restaurants[i] : i \in 1..Len(restaurants)},
                page : ScrapePages]
    /\ today \in Clocks
    /\ ret = None
    /\ NoRun

\* One call of scrape_menu(arg.restaurant) on the page arg.page: what it
\* returns, or that it raised.
CallScrapeMenu ==
    /\ pc = "call"
    /\ ret' = [raised   |-> scrape_raises(arg.page),
               returned |-> IF scrape_raises(arg.page) THEN None
                            ELSE scrape_menu(arg.restaurant, arg.page, today)]
    /\ pc' = "return"
    /\ UNCHANGED <<arg, today, ctl>>

NextScrape == CallScrapeMenu

ScrapeSpec == InitScrape /\ [][NextScrape]_vars

\* ------------------------------------------------------------ the run

\* MAX_RETRIES as main sets it.
MAX_RETRIES == 6

\* The retry budgets explored: the program's own and the small ones.
Budgets == (1..MaxBudget) \cup {MAX_RETRIES}

EnvNames == {"SENDER_EMAIL", "SENDER_PASSWORD", "RECIPIENT_EMAIL"}

\* os.environ.get(name): not set (None), set to "", or set to a value.
EnvValues == {"unset", "empty", "set"}

\* Faulty variant of ConfigMissing: the recipient is not checked.
ConfigMissingNoRecipient(e) ==
    e["SENDER_EMAIL"] # "set" \/ e["SENDER_PASSWORD"] # "set"

\* not SENDER_EMAIL or not SENDER_PASSWORD or not RECIPIENT_EMAIL: None and
\* "" are both false.
ConfigMissing(e) ==
    e["SENDER_EMAIL"] # "set" \/ e["SENDER_PASSWORD"] # "set"
        \/ e["RECIPIENT_EMAIL"] # "set"

\* What the pages of a run look like.  A page that fails before the texts
\* are read carries no texts.
TitleTexts == { <<"2", "M", "5", "D">>, <<" ">>, <<"x">> }
OcrTexts   == { <<>>, <<"2", ".", "5">>,
                <<"2","0","2","6","Y","0","2","M","0","4","D">> }

Page(html, raises, image_url, image, has_title, title, ocr_ok, ocr) ==
    [html |-> html, raises |-> raises, image_url |-> image_url, image |-> image,
     has_title |-> has_title, title |-> title, ocr_ok |-> ocr_ok, ocr |-> ocr]

FailedPages ==
    { Page(FALSE, FALSE, FALSE, FALSE, FALSE, <<>>, FALSE, <<>>),
      Page(TRUE,  TRUE,  FALSE, FALSE, FALSE, <<>>, FALSE, <<>>),
      Page(TRUE,  FALSE, FALSE, FALSE, FALSE, <<>>, FALSE, <<>>),
      Page(TRUE,  FALSE, TRUE,  FALSE, FALSE, <<>>, FALSE, <<>>) }

GoodPages ==
    { Page(TRUE, FALSE, TRUE, TRUE, TRUE, t, TRUE, o) : t \in TitleTexts, o \in OcrTexts }
    \cup { Page(TRUE, FALSE, TRUE, TRUE, FALSE, <<>>, TRUE, o) : o \in OcrTexts }
    \cup { Page(TRUE, FALSE, TRUE, TRUE, TRUE, t, FALSE, <<>>) : t \in TitleTexts }

RunPages == FailedPages \cup GoodPages

\* The day the clock shows when a run starts.
StartDay == <<2026, 2, 5>>

Init ==
    /\ pc = "start"
    /\ entry \in {"playwright", "basic"}
    /\ env \in [EnvNames -> EnvValues]
    /\ maxAttempts \in (IF entry = "playwright" THEN Budgets ELSE {0})
    /\ attempt = 0
    /\ idx = 0
    /\ results = <<>>
    /\ calls = <<>>
    /\ sleeps = 0
    /\ sent = <<>>
    /\ today = StartDay
    /\ rollovers = 0
    /\ produced = {}
    /\ arg = <<>>
    /\ ret = <<>>

\* Faulty variant of FreshResults: the list is carried over to the next pass.
KeepResults(res_list) == res_list

\* results = [] at the head of a pass.
FreshResults(res_list) == <<>>

\* main up to the first scrape: the check of the mail settings, then the
\* first pass of the loop begins.
Startup ==
    /\ pc = "start"
    /\ IF ConfigMissing(env)
       THEN /\ pc' = "aborted"
            /\ UNCHANGED <<attempt, idx, results>>
       ELSE /\ pc' = "scrape"
            /\ attempt' = IF entry = "playwright" THEN 1 ELSE 0
            /\ idx' = 1
            /\ results' = FreshResults(results)
    /\ UNCHANGED <<entry, env, maxAttempts, calls, sleeps, sent, today,
                   rollovers, produced, arg, ret>>

\* Faulty variant of AppendResult: an exception empties the list.
AppendResultClearOnRaise(res_list, raised, result) ==
    IF raised THEN <<>>
    ELSE IF result # None THEN Append(res_list, result[1]) ELSE res_list

\* Faulty variant of AppendResult: a record without a date is dropped like
\* a failed fetch.
AppendResultDatedOnly(res_list, raised, result) ==
    IF raised THEN res_list
    ELSE IF result # None /\ result[1].date # DateUnknown
         THEN Append(res_list, result[1])
         ELSE res_list

\* The body of the loop over restaurants: an exception is logged, a result
\* that is not None is appended.
AppendResult(res_list, raised, result) ==
    IF raised THEN res_list
    ELSE IF result # None THEN Append(res_list, result[1]) ELSE res_list

\* Faulty variant of LoopDone: an exception ends the pass.
LoopDoneOnRaise(i, raised) == i = Len(restaurants) \/ raised

\* The loop over restaurants ends after the last one, whatever happened.
LoopDone(i, raised) == i = Len(restaurants)

\* One turn of the loop over restaurants: scrape_menu(restaurants[idx]).
ScrapeNext ==
    /\ pc = "scrape"
    /\ \E page \in RunPages :
             /\ results' = AppendResult(results, scrape_raises(page),
                                        scrape_menu(restaurants[idx], page, today))
             /\ calls' = Append(calls,
                    [restaurant |-> restaurants[idx].name,
                     outcome    |-> Outcome(page),
                     returned   |-> IF scrape_raises(page) THEN None
                                    ELSE scrape_menu(restaurants[idx], page, today)])
             /\ produced' = IF Len(results') > Len(results)
                            THEN produced \cup {restaurants[idx].name}
                            ELSE produced
             /\ IF LoopDone(idx, scrape_raises(page))
                THEN /\ pc' = IF entry = "playwright" THEN "evaluate" ELSE "notify"
                     /\ idx' = idx
                ELSE /\ pc' = "scrape"
                     /\ idx' = idx + 1
    /\ UNCHANGED <<entry, env, maxAttempts, attempt, sleeps, sent, today,
                   rollovers, arg, ret>>

\* Faulty variant of TodayMenus: only the first record is looked at.
TodayMenusFirstOnly(res_list) ==
    IF res_list = <<>> THEN <<>>
    ELSE SelectSeq(<<res_list[1]>>, LAMBDA r : r.is_today)

\* [r for r in results if r and r['is_today']]
TodayMenus(res_list) == SelectSeq(res_list, LAMBDA r : r.is_today)

\* today_menus of send_menu_notification:
\* [m for m in menu_results if m and m['is_today']]
today_menus(menu_results) == SelectSeq(menu_results, LAMBDA m : m.is_today)

\* Faulty variant of old_menus: the test of the flag is left out.
old_menus_all(menu_results) == menu_results

\* old_menus of send_menu_notification:
\* [m for m in menu_results if m and not m['is_today']]
old_menus(menu_results) == SelectSeq(menu_results, LAMBDA m : ~m.is_today)

\* Faulty variant of Send: a call that failed is made once more.
SendWithRetry(log, menu_results, ok) ==
    IF ok
    THEN Append(log, [menu_results |-> menu_results,
                      today_menus  |-> today_menus(menu_results),
                      old_menus    |-> old_menus(menu_results),
                      ok           |-> TRUE])
    ELSE Append(Append(log, [menu_results |-> menu_results,
                             today_menus  |-> today_menus(menu_results),
                             old_menus    |-> old_menus(menu_results),
                             ok           |-> FALSE]),
                [menu_results |-> menu_results,
                 today_menus  |-> today_menus(menu_results),
                 old_menus    |-> old_menus(menu_results),
                 ok           |-> FALSE])

\* One call of send_menu_notification(menu_results): the two lists the mail
\* is laid out from, and ok, what the call returns (False when the SMTP
\* exchange raised).
Send(log, menu_results, ok) ==
    Append(log, [menu_results |-> menu_results,
                 today_menus  |-> today_menus(menu_results),
                 old_menus    |-> old_menus(menu_results),
                 ok           |-> ok])

\* Faulty variant of Verdict: one pass too many (<= in place of <).
VerdictOneMore(res_list, n, budget) ==
    IF TodayMenus(res_list) # <<>> THEN "success"
    ELSE IF n <= budget THEN "sleep"
    ELSE "exhausted"

\* The branch the end of a pass takes: if today_menus / elif attempt <
\* MAX_RETRIES / else.
Verdict(res_list, n, budget) ==
    IF TodayMenus(res_list) # <<>> THEN "success"
    ELSE IF n < budget THEN "sleep"
    ELSE "exhausted"

\* Faulty variant of MustSend: whatever the verdict, an empty list is sent too.
MustSendAlways(verdict, res_list) == verdict # "sleep"

\* Faulty variant of MustSend: every pass that gave a record is notified,
\* a pass followed by a sleep too.
MustSendEveryPass(verdict, res_list) == res_list # <<>>

\* Whether the end of a pass calls the notifier: always on success, on
\* exhaustion only "if results:".
MustSend(verdict, res_list) ==
    verdict = "success" \/ (verdict = "exhausted" /\ res_list # <<>>)

\* The end of a pass of the retry loop: today's menu found, or another pass
\* is due, or the budget is spent.
Evaluate ==
    /\ pc = "evaluate"
    /\ pc' = Verdict(results, attempt, maxAttempts)
    /\ IF MustSend(pc', results)
       THEN \E ok \in BOOLEAN : sent' = Send(sent, results, ok)
       ELSE sent' = sent
    /\ UNCHANGED <<entry, env, maxAttempts, attempt, idx, results, calls,
                   sleeps, today, rollovers, produced, arg, ret>>

\* time.sleep(RETRY_INTERVAL), during which the day may change, and the
\* head of the next pass.
Sleep ==
    /\ pc = "sleep"
    /\ sleeps' = sleeps + 1
    /\ today' \in {today} \cup (IF rollovers < MaxRollover THEN {NextDay(today)} ELSE {})
    /\ rollovers' = IF today' = today THEN rollovers ELSE rollovers + 1
    /\ attempt' = attempt + 1
    /\ results' = FreshResults(results)
    /\ calls' = <<>>
    /\ idx' = 1
    /\ pc' = "scrape"
    /\ UNCHANGED <<entry, env, maxAttempts, sent, produced, arg, ret>>

\* Faulty variant of HasResults: the notifier is called with an empty list too.
HasResultsAlways(res_list) == TRUE

\* if results: of lunch_menu.py main.
HasResults(res_list) == res_list # <<>>

\* The end of lunch_menu.py main: the results are sent when there are any.
Notify ==
    /\ pc = "notify"
    /\ IF HasResults(results)
       THEN \E ok \in BOOLEAN : sent' = Send(sent, results, ok)
       ELSE sent' = sent
    /\ pc' = "finished"
    /\ UNCHANGED <<entry, env, maxAttempts, attempt, idx, results, calls,
                   sleeps, today, rollovers, produced, arg, ret>>

Next == Startup \/ ScrapeNext \/ Evaluate \/ Sleep \/ Notify

Spec == Init /\ [][Next]_vars

\* The loop is never preempted: every step that can be taken is taken.
FairSpec == Spec /\ WF_vars(Next)

\* ------------------------------------------------- properties of a run

\* Some record of the list is flagged as today's.
HasToday(res_list) == \E i \in 1..Len(res_list) : res_list[i].is_today

\* The run went through the retry loop and is over.
LoopOver == pc \in {"success", "exhausted"}

\* The records the scrapes of the current pass returned, in call order.
RECURSIVE Returned(_)
Returned(log) ==
    IF log = <<>> THEN <<>> ELSE log[1].returned \o Returned(Tail(log))

\* The restaurants some record of a notifier call was about.
NotifiedAbout ==
    UNION { {sent[k].menu_results[i].restaurant : i \in 1..Len(sent[k].menu_results)} :
            k \in 1..Len(sent) }

\* C1: a pass that ends with a record flagged as today's is followed at once
\* by Success, with the notifier called and without a sleep or a new pass;
\* nothing happens after Success; and a pass is followed by a sleep only if
\* none of its records is today's, so Success comes with the first such pass.
C1_SuccessOnFirstTodayAttempt ==
    [][ /\ (pc = "evaluate" /\ HasToday(results))
            => (pc' = "success" /\ sleeps' = sleeps /\ attempt' = attempt
                /\ Len(sent') = 1)
        /\ (pc = "success") => (pc' = "success" /\ sleeps' = sleeps
                                /\ attempt' = attempt /\ calls' = calls)
        /\ (pc' = "sleep") => ~HasToday(results)
        /\ (pc' = "success") => HasToday(results) ]_vars

\* C1 witness: Success in the second pass, after exactly one sleep.
C1_Witness ==
    pc = "success" /\ attempt = 2 /\ sleeps = 1 /\ maxAttempts = MAX_RETRIES
        /\ HasToday(results)

C4_HandedIsLastPass ==
    LoopOver =>
        /\ Len(sent) <= 1
        /\ sent # <<>> =>
              /\ sent[1].menu_results = Returned(calls)
              /\ \A i \in 1..Len(calls) :
                    (calls[i].outcome = "record")
                        <=> (\E j \in 1..Len(sent[1].menu_results) :
                                sent[1].menu_results[j].restaurant = calls[i].restaurant)

\* C4 witness: a third pass hands over two records, one restaurant having
\* failed, after earlier passes that gave records too.
C4_Witness ==
    /\ LoopOver /\ attempt = 3 /\ sent # <<>>
    /\ Len(sent[1].menu_results) = 2
    /\ Cardinality(produced) = 3

\* The run is over, whichever entry point and whichever way.
RunOver == pc \in {"aborted", "success", "exhausted", "finished"}

\* C5: when a run is over, the notifier was called if and only if the
\* results list holds a record.
C5_NotifiedIffRecord ==
    RunOver => ((sent # <<>>) <=> (results # <<>>))

\* C5 witness: a run of the retry loop that ended without a record and
\* without a call of the notifier.
C5_Witness ==
    pc = "exhausted" /\ results = <<>> /\ sent = <<>> /\ attempt = 2

\* C6: whatever the scrapes of a pass come to, the pass calls scrape_menu for
\* every restaurant in configured order, and the results list is made of the
\* records the calls returned, each under its own restaurant's name.
C6_FailureIsLocal ==
    /\ results = Returned(calls)
    /\ \A i \in 1..Len(calls) :
          /\ calls[i].restaurant = restaurants[i].name
          /\ calls[i].returned # None
                => calls[i].returned[1].restaurant = restaurants[i].name
    /\ pc = "scrape" => Len(calls) = idx - 1
    /\ pc \in {"evaluate", "notify", "sleep", "success", "exhausted", "finished"}
          => Len(calls) = Len(restaurants)

\* C6 witness: the first scrape raised, the second failed to fetch, and the
\* third still gave its record.
C6_Witness ==
    /\ pc = "evaluate" /\ Len(calls) = 3
    /\ calls[1].outcome = "raised"
    /\ calls[2].outcome = "fetch_failed"
    /\ calls[3].outcome = "record"
    /\ Len(results) = 1

\* C7: when one of the three mail settings is not set (or is empty), the run
\* never gets past the start: no scrape, no sleep, no call of the notifier.
C7_NoConfigNoRun ==
    (\E n \in EnvNames : env[n] \in {"unset", "empty"}) =>
        /\ pc \in {"start", "aborted"}
        /\ attempt = 0 /\ calls = <<>> /\ results = <<>>
        /\ sleeps = 0 /\ sent = <<>>

\* C7 witness: a run stopped because the recipient alone is missing.
C7_Witness ==
    /\ pc = "aborted"
    /\ env["SENDER_EMAIL"] = "set" /\ env["SENDER_PASSWORD"] = "set"
    /\ env["RECIPIENT_EMAIL"] = "unset"

\* C8: a run of the retry loop never makes more than maxAttempts passes, and
\* once it scrapes it ends in Success or Exhausted.
C8_Terminates ==
    /\ [](entry = "playwright" => (attempt <= maxAttempts /\ sleeps < maxAttempts))
    /\ (entry = "playwright" /\ pc = "scrape") ~> LoopOver

\* C8 witness: a run that used its whole budget of MAX_RETRIES passes.
C8_Witness ==
    pc = "exhausted" /\ attempt = MAX_RETRIES /\ sleeps = MAX_RETRIES - 1

\* ------------------------------------------- properties of the functions

\* The date the texts of the page of the call resolve to.
Resolved == ResolveDate(arg.restaurant, arg.page, today)

\* C9: the record scrape_menu returns is flagged as today's exactly when its
\* date was resolved and is the day the clock shows; with no date resolved
\* the flag is false and the record says so; the day before and the day
\* after the clock's are not today.
C9_IsTodayIffDateIsToday ==
    (pc = "return" /\ ret.returned # None) =>
        LET rec == ret.returned[1]
        IN  /\ rec.is_today <=> (Resolved # None /\ Resolved[1] = today[1]
                                  /\ Resolved[2] = today[2] /\ Resolved[3] = today[3])
            /\ Resolved = None => (~rec.is_today /\ rec.date = DateUnknown)
            /\ (Resolved # None /\ NextDay(Resolved) = today) => ~rec.is_today
            /\ (Resolved # None /\ Resolved = NextDay(today)) => ~rec.is_today
            /\ rec.is_today => rec.date = strftime(today)

\* C9 witness: a record whose date is the day before the clock's.
C9_Witness ==
    /\ pc = "return" /\ ret.returned # None
    /\ Resolved # None /\ NextDay(Resolved) = today
    /\ ~ret.returned[1].is_today

\* Positions i..j-1 of t are all whitespace.
AllSpace(t, i, j) == \A p \in i..(j - 1) : IsSpace(CharAt(t, p))

\* One or two digits at position i, followed by the marker c.
NumberThen(t, i, c) ==
    \E n \in {1, 2} : DigitsAt(t, i, n) /\ CharAt(t, i + n) = c

\* The value of the one or two digits at position i.
NumberAt(t, i) == IF IsDigit(CharAt(t, i + 1)) THEN ToInt(t, i, 2) ELSE ToInt(t, i, 1)

\* The places where t holds a full date: <<i, year, month, day>> for a year
\* of four digits at i, then Y, blanks, a month of one or two digits, then M,
\* blanks, a day of one or two digits, then D.
FullDatesIn(t) ==
    UNION { UNION { { <<i, ToInt(t, i, 4), NumberAt(t, j), NumberAt(t, k)>> :
                      k \in { q \in (j + 2)..Len(t) :
                                /\ NumberThen(t, q, "D")
                                /\ \E n \in {1, 2} :
                                      /\ DigitsAt(t, j, n) /\ CharAt(t, j + n) = "M"
                                      /\ AllSpace(t, j + n + 1, q) } } :
                    j \in { q \in (i + 5)..Len(t) :
                              NumberThen(t, q, "M") /\ AllSpace(t, i + 5, q) } } :
            i \in { q \in 1..Len(t) : DigitsAt(t, q, 4) /\ CharAt(t, q + 4) = "Y" } }

\* The full dates of t with calendar-valid fields.
ValidFullDatesIn(t) == { f \in FullDatesIn(t) : ValidDate(f[2], f[3], f[4]) }

\* C10 as stated: when the text holds a full date with valid fields,
\* parse_date returns such a date of the text.
C10_Original ==
    (pc = "return" /\ ValidFullDatesIn(arg) # {}) =>
        \E f \in ValidFullDatesIn(arg) : ret = <<f[2], f[3], f[4]>>

\* C10 amended: when the leftmost full date of the text has valid fields,
\* parse_date returns exactly that date, whatever else the text holds.
C10_LeftmostFullDate ==
    pc = "return" =>
        \A f \in ValidFullDatesIn(arg) :
            (\A g \in FullDatesIn(arg) : f[1] <= g[1]) => ret = <<f[2], f[3], f[4]>>

\* C10 witness: a valid full date is returned although a date-like piece
\* with month 13 comes before it.
C10_Witness ==
    /\ pc = "return"
    /\ Cardinality(ValidFullDatesIn(arg)) = 1
    /\ Cardinality(FullDatesIn(arg)) = 1
    /\ Search(2, arg) = <<13, 1>>
    /\ ret = <<2024, 2, 29>>

\* ------------------------------------------------ C11: OCR-only restaurants

\* The date parsed from what the OCR step hands back for the page under call.
OcrParsed ==
    parse_date(IF arg.page.ocr_ok THEN arg.page.ocr ELSE <<>>, today)

\* The date parsed from the stripped title of the page under call, None when
\* the page has no title.
TitleParsed ==
    IF arg.page.has_title THEN parse_date(Strip(arg.page.title), today) ELSE None

\* The record scrape_menu returned.
Rec == ret.returned[1]

\* scrape_menu returned a record.
GaveRecord == pc = "return" /\ ret.returned # None

\* C11: for a restaurant with date_in_post false the post title is never
\* used: the record's date is what parsing the OCR text alone gives (the date
\* unknown mark when that is None), whatever the title holds.
C11_OcrOnlyIgnoresTitle ==
    (GaveRecord /\ ~arg.restaurant.date_in_post) =>
        /\ Rec.date = (IF OcrParsed # None THEN strftime(OcrParsed)
                       ELSE DateUnknown)
        /\ Rec.is_today = (OcrParsed = today)

\* date_in_post is false, the title holds a valid date, the OCR text resolves
\* to another one or to none, and the record carries the OCR outcome.
C11_Witness ==
    /\ GaveRecord /\ ~arg.restaurant.date_in_post
    /\ TitleParsed # None /\ TitleParsed # OcrParsed
    /\ TitleParsed = today
    /\ ~Rec.is_today
    /\ Rec.date \in {DateUnknown, strftime(<<2025, 2, 5>>)}

\* ------------------------------------------- C12: title first, then OCR

\* The first of the title's date and the OCR text's date that is not None.
TitleThenOcr == IF TitleParsed # None THEN TitleParsed ELSE OcrParsed

\* C12: for a restaurant with date_in_post true the record's date is the
\* first one that is not None of the post title's date and the OCR text's
\* date, in that order: a title date wins over any OCR date, the OCR date is
\* used only when the title is missing or gives None, and the date is unknown
\* when both give None.
C12_TitleBeforeOcr ==
    (GaveRecord /\ arg.restaurant.date_in_post) =>
        /\ Rec.date = (IF TitleThenOcr # None THEN strftime(TitleThenOcr)
                       ELSE DateUnknown)
        /\ Rec.is_today = (TitleThenOcr = today)
        /\ (TitleParsed = None /\ OcrParsed = None) => Rec.date = DateUnknown

\* date_in_post is true, title and OCR text both resolve to valid dates that
\* differ, and the record carries the title's.
C12_Witness ==
    /\ GaveRecord /\ arg.restaurant.date_in_post
    /\ TitleParsed # None /\ OcrParsed # None /\ TitleParsed # OcrParsed
    /\ OcrParsed = today
    /\ Rec.date = strftime(TitleParsed)
    /\ ~Rec.is_today

\* ------------------------------------------------- C13: the OCR step fails

\* scrape_menu was called on a page that was fetched and whose image was
\* found and downloaded, the OCR engine's readtext raised on the image, and
\* nothing else raised.
OcrFailed ==
    /\ pc = "return"
    /\ arg.page.html /\ arg.page.image_url /\ arg.page.image
    /\ ~arg.page.raises
    /\ ~arg.page.ocr_ok

\* C13 as stated: when OCR of the downloaded image fails, no record is
\* produced for the restaurant.
C13_Original == OcrFailed => ret.returned = None

\* C13: when readtext fails on the downloaded image the call does not raise
\* and a record is produced all the same: its menu text is empty and its date
\* is the post title's for a restaurant with date_in_post whose title gives
\* one, unknown otherwise.  No record is produced only when an exception
\* escapes scrape_menu (the OCR engine cannot be started, the image cannot
\* be resized).
C13_OcrFailureGivesEmptyText ==
    /\ OcrFailed =>
          /\ ~ret.raised
          /\ ret.returned # None
          /\ Rec.menu_text = <<>>
          /\ Rec.date = (IF arg.restaurant.date_in_post /\ TitleParsed # None
                         THEN strftime(TitleParsed) ELSE DateUnknown)
    /\ (pc = "return" /\ arg.page.html /\ arg.page.raises) =>
          ret.raised /\ ret.returned = None

\* readtext failed on an image that shows today's date; the record has an
\* empty text and no date.
C13_Witness ==
    /\ OcrFailed
    /\ parse_date(arg.page.ocr, today) = today
    /\ ret.returned # None
    /\ Rec.menu_text = <<>>
    /\ Rec.date = DateUnknown
    /\ ~Rec.is_today

\* ---------------------------------------- C14: a record without a date

\* The restaurants of the current pass whose scrape gave a record without a
\* date (their texts held nothing that reads as a date).
Undated == { i \in 1..Len(calls) :
                calls[i].returned # None /\ calls[i].returned[1].date = DateUnknown }

\* The records of a list, as a set.
RecordsOf(res_list) == { res_list[j] : j \in 1..Len(res_list) }

\* The run is over and went through the loop over the restaurants.
PassesOver == pc \in {"success", "exhausted", "finished"}

\* C14 as stated: a restaurant without a date in its texts counts like one
\* whose fetch failed, so that no record of it is in the result list or in
\* what the notifier is handed.
C14_Original ==
    /\ \A r \in RecordsOf(results) : r.date # DateUnknown
    /\ \A k \in 1..Len(sent) :
           \A r \in RecordsOf(sent[k].menu_results) : r.date # DateUnknown

\* C14: a restaurant without a date in its texts is not treated like one
\* whose fetch failed: its record, with is_today false, is in the pass's
\* result list and, when the run ends with this pass, in the list handed to
\* the notifier, which is called even when there is no other record; a
\* restaurant whose fetch failed has no record in the list.
C14_UndatedRecordIsKept ==
    /\ \A i \in Undated :
          /\ calls[i].returned[1] \in RecordsOf(results)
          /\ ~calls[i].returned[1].is_today
          /\ PassesOver =>
                /\ sent # <<>>
                /\ calls[i].returned[1] \in RecordsOf(sent[Len(sent)].menu_results)
    /\ \A i \in 1..Len(calls) :
          calls[i].outcome = "fetch_failed" =>
              \A r \in RecordsOf(results) : r.restaurant # calls[i].restaurant

\* The budget is spent; in the last pass one restaurant gave a record without
\* a date and the fetch of the two others failed; the notifier was called
\* with that one record.
C14_Witness ==
    /\ pc = "exhausted"
    /\ Len(calls) = 3 /\ Cardinality(Undated) = 1
    /\ \A i \in 1..3 : i \notin Undated => calls[i].outcome = "fetch_failed"
    /\ Len(results) = 1 /\ results[1].date = DateUnknown
    /\ Len(sent) = 1 /\ sent[1].menu_results = results

\* ------------------------------------- C15: neither text yields a date

\* scrape_menu was called on a page that was fetched and whose image was
\* found and downloaded, nothing raised, and neither the post title nor the
\* OCR text yields a date.
NoDateAnywhere ==
    /\ pc = "return"
    /\ arg.page.html /\ arg.page.image_url /\ arg.page.image
    /\ ~arg.page.raises
    /\ TitleParsed = None
    /\ OcrParsed = None

\* C15: when the fetch, the image URL and the download succeed but neither
\* the post title nor the OCR text yields a date, a record is produced all
\* the same, with the date unknown and is_today false.
C15_RecordWithoutDate ==
    NoDateAnywhere =>
        /\ ~ret.raised
        /\ ret.returned # None
        /\ Rec.restaurant = arg.restaurant.name
        /\ Rec.date = DateUnknown
        /\ Rec.is_today = FALSE

\* date_in_post is true, the title and the OCR text are both empty, and the
\* record has no date.
C15_Witness ==
    /\ NoDateAnywhere
    /\ arg.restaurant.date_in_post
    /\ arg.page.has_title /\ arg.page.title = <<>>
    /\ arg.page.ocr_ok /\ arg.page.ocr = <<>>
    /\ ret.returned # None
    /\ Rec.date = DateUnknown /\ ~Rec.is_today

\* ------------------------------------------------ C16: a budget of one

\* The stale records among those the scrapes of the current pass returned.
StaleReturned == SelectSeq(Returned(calls), LAMBDA r : ~r.is_today)

\* C16: with maxAttempts = 1 and a pass without a record for today the run
\* makes exactly one attempt, never sleeps and ends exhausted; the notifier
\* is handed exactly the stale records of the restaurants that did not fail,
\* none of them for today (and is not called when every restaurant failed).
C16_SingleAttemptExhausts ==
    (entry = "playwright" /\ maxAttempts = 1) =>
        /\ attempt <= 1 /\ sleeps = 0 /\ pc # "sleep"
        /\ (pc = "evaluate" /\ ~HasToday(results)) =>
               Verdict(results, attempt, maxAttempts) = "exhausted"
        /\ pc = "exhausted" =>
               /\ attempt = 1
               /\ ~HasToday(Returned(calls))
               /\ IF StaleReturned = <<>>
                  THEN sent = <<>>
                  ELSE /\ Len(sent) = 1
                       /\ sent[1].menu_results = StaleReturned
                       /\ TodayMenus(sent[1].menu_results) = <<>>

\* maxAttempts = 1: two of the three restaurants gave a stale record, one
\* failed; the run is exhausted after one attempt without a sleep and the
\* notifier got the two records.
C16_Witness ==
    /\ entry = "playwright" /\ maxAttempts = 1
    /\ pc = "exhausted" /\ attempt = 1 /\ sleeps = 0
    /\ Len(calls) = 3
    /\ calls[2].returned = None
    /\ Len(sent) = 1
    /\ Len(sent[1].menu_results) = 2
    /\ sent[1].menu_results[1].restaurant = restaurants[1].name
    /\ sent[1].menu_results[2].restaurant = restaurants[3].name
    /\ \A j \in 1..2 : ~sent[1].menu_results[j].is_today

\* ------------------------------------------ C17: the order of the patterns

\* The places where t holds a month and a day: <<i, month, day>> for a month
\* of one or two digits at i, then M, blanks, a day of one or two digits,
\* then D.
MonthDaysIn(t) ==
    UNION { { <<i, NumberAt(t, i), NumberAt(t, k)>> :
                k \in { q \in (i + 2)..Len(t) :
                          /\ NumberThen(t, q, "D")
                          /\ \E n \in {1, 2} :
                                /\ DigitsAt(t, i, n) /\ CharAt(t, i + n) = "M"
                                /\ AllSpace(t, i + n + 1, q) } } :
            i \in { q \in 1..Len(t) : NumberThen(t, q, "M") } }

\* The places where t holds two numbers joined by the mark c ("." or "/"):
\* <<i, month, day>> for one or two digits at i, then c, then a digit.
JoinedIn(t, c) ==
    UNION { { <<i, NumberAt(t, i), NumberAt(t, i + n + 1)>> :
                n \in { m \in {1, 2} : /\ DigitsAt(t, i, m)
                                       /\ CharAt(t, i + m) = c
                                       /\ IsDigit(CharAt(t, i + m + 1)) } } :
            i \in 1..Len(t) }

\* The year put before a month and a day.
InYear(y, S) == { <<f[1], y, f[2], f[3]>> : f \in S }

\* Every place where the k-th kind of date stands in t, with the date it
\* reads as: <<i, year, month, day>>.
Occurrences(k, t, now) ==
    CASE k = 1 -> FullDatesIn(t)
      [] k = 2 -> InYear(now[1], MonthDaysIn(t))
      [] k = 3 -> InYear(now[1], JoinedIn(t, "."))
      [] k = 4 -> InYear(now[1], JoinedIn(t, "/"))

\* The occurrence that starts first.
Leftmost(S) == CHOOSE f \in S : \A g \in S : f[1] <= g[1]

\* The k-th kind stands in t and its leftmost occurrence is a date of the
\* calendar.
LeftmostValid(k, t, now) ==
    /\ Occurrences(k, t, now) # {}
    /\ ValidDate(Leftmost(Occurrences(k, t, now))[2],
                 Leftmost(Occurrences(k, t, now))[3],
                 Leftmost(Occurrences(k, t, now))[4])

\* The k-th kind is the first one, in the order full, month-day, dotted,
\* slashed, whose leftmost occurrence is a date of the calendar.
Decides(k, t, now) ==
    /\ LeftmostValid(k, t, now)
    /\ \A j \in 1..(k - 1) : ~LeftmostValid(j, t, now)

\* The date an occurrence reads as.
DateOf(f) == <<f[2], f[3], f[4]>>

\* C17: parse_date tries the four kinds in the order full, month-day, dotted,
\* slashed, each on its leftmost occurrence only: it returns the date of the
\* first kind whose leftmost occurrence is a date of the calendar, passing
\* over a kind that does not occur or whose leftmost occurrence is out of
\* range, and returns None when no kind is left.
C17_FirstPatternWithValidFirstMatch ==
    pc = "return" =>
        /\ \A k \in 1..NumPatterns :
              Decides(k, arg, today) =>
                  ret = DateOf(Leftmost(Occurrences(k, arg, today)))
        /\ (\A k \in 1..NumPatterns : ~LeftmostValid(k, arg, today)) => ret = None

\* The only full date of the text is out of range, its leftmost month-day
\* is out of range too, and the dotted kind gave the date.
C17_Witness ==
    /\ pc = "return"
    /\ Cardinality(FullDatesIn(arg)) = 1
    /\ ~LeftmostValid(1, arg, today)
    /\ Occurrences(2, arg, today) # {} /\ ~LeftmostValid(2, arg, today)
    /\ Decides(3, arg, today)
    /\ ret = <<today[1], 2, 5>>

\* ---------------------------------------- C18: texts that hold no date

\* The kinds of date that stand somewhere in t.
KindsIn(t, now) == { k \in 1..NumPatterns : Occurrences(k, t, now) # {} }

\* No occurrence of any kind in t is a date of the calendar (so also when
\* there is none, and for the empty text).
NoValidDateIn(t, now) ==
    \A k \in 1..NumPatterns :
        \A f \in Occurrences(k, t, now) : ~ValidDate(f[2], f[3], f[4])

\* C18: parse_date never raises, whatever the text, and returns None for the
\* empty text, for a text in which nothing reads as a date, and for a text
\* in which everything that reads as a date is out of range.
C18_NoDateGivesNoneWithoutRaising ==
    pc = "return" =>
        /\ ret # ValueError
        /\ ret = None \/ (Len(ret) = 3 /\ ValidDate(ret[1], ret[2], ret[3]))
        /\ arg = <<>> => ret = None
        /\ KindsIn(arg, today) = {} => ret = None
        /\ NoValidDateIn(arg, today) => ret = None

\* The text holds dates of two kinds, all out of range, and parse_date
\* returned None.
C18_Witness ==
    /\ pc = "return"
    /\ Cardinality(KindsIn(arg, today)) >= 2
    /\ NoValidDateIn(arg, today)
    /\ ret = None

\* --------------------------------------------- C19: dates without a year

\* The months and days that stand in t without a year, in any of the three
\* ways of writing them.
YearlessIn(t) == { <<f[2], f[3]>> : f \in MonthDaysIn(t) \cup JoinedIn(t, ".")
                                                     \cup JoinedIn(t, "/") }

\* C19: when the text holds no full date and parse_date returns a date, the
\* date has the month and the day of a month-day, dotted or slashed part of
\* the text and the year the clock shows when parse_date is called.
C19_YearlessDateGetsCurrentYear ==
    (pc = "return" /\ FullDatesIn(arg) = {} /\ ret # None) =>
        /\ ret[1] = today[1]
        /\ <<ret[2], ret[3]>> \in YearlessIn(arg)

\* On 31 December 2025 a text without a full date gave 31 December 2025.
C19_Witness ==
    /\ pc = "return"
    /\ FullDatesIn(arg) = {}
    /\ today = <<2025, 12, 31>>
    /\ <<12, 31>> \in YearlessIn(arg)
    /\ ret = <<2025, 12, 31>>

\* ------------------------------------------------ C20: when the run sleeps

\* C20: the retry loop sleeps only after a whole pass that gave no record
\* for today and was not the last one allowed; the sleeps made are always
\* one fewer than the attempts begun, hence at most maxAttempts - 1, and
\* none is made once the run is over.
C20_SleepsBetweenAttemptsOnly ==
    /\ [](attempt = 0 => sleeps = 0)
    /\ [](attempt >= 1 => (sleeps = attempt - 1 /\ sleeps <= maxAttempts - 1))
    /\ [][sleeps' # sleeps =>
             /\ sleeps' = sleeps + 1
             /\ attempt' = attempt + 1
             /\ pc = "sleep"
             /\ Len(calls) = Len(restaurants)
             /\ ~HasToday(results)
             /\ attempt < maxAttempts]_vars
    /\ [][RunOver => sleeps' = sleeps]_vars

\* A run with the program's own budget that used it up: six attempts, five
\* sleeps, and it is over.
C20_Witness ==
    /\ pc = "exhausted"
    /\ maxAttempts = MAX_RETRIES
    /\ attempt = MAX_RETRIES
    /\ sleeps = MAX_RETRIES - 1

\* ------------------------------------------ C21: the notifier's two lists

\* The place of a restaurant in the restaurants list.
PlaceOf(name) == CHOOSE i \in 1..Len(restaurants) : restaurants[i].name = name

\* The records of a list stand in the order of the restaurants list, none
\* twice.
InConfiguredOrder(res_list) ==
    \A i, j \in 1..Len(res_list) :
        i < j => PlaceOf(res_list[i].restaurant) < PlaceOf(res_list[j].restaurant)

\* How often a record stands in a list.
TimesIn(r, res_list) == Cardinality({ i \in 1..Len(res_list) : res_list[i] = r })

\* C21: the notifier splits the records it is handed by is_today alone: each
\* record stands in exactly one of today_menus and old_menus, today_menus
\* holds the records with is_today true and old_menus the others, and both
\* lists keep the order of the restaurants list.
C21_PartitionByIsToday ==
    \A k \in 1..Len(sent) :
        /\ \A r \in RecordsOf(sent[k].menu_results) :
              /\ TimesIn(r, sent[k].today_menus) + TimesIn(r, sent[k].old_menus) = 1
              /\ r.is_today <=> r \in RecordsOf(sent[k].today_menus)
        /\ RecordsOf(sent[k].today_menus) \cup RecordsOf(sent[k].old_menus)
              = RecordsOf(sent[k].menu_results)
        /\ \A r \in RecordsOf(sent[k].today_menus) : r.is_today
        /\ \A r \in RecordsOf(sent[k].old_menus) : ~r.is_today
        /\ InConfiguredOrder(sent[k].today_menus)
        /\ InConfiguredOrder(sent[k].old_menus)

\* The notifier was handed three records: the first and the third are for
\* today, the second is stale.
C21_Witness ==
    /\ Len(sent) = 1
    /\ Len(sent[1].menu_results) = 3
    /\ Len(sent[1].today_menus) = 2
    /\ sent[1].today_menus[1].restaurant = restaurants[1].name
    /\ sent[1].today_menus[2].restaurant = restaurants[3].name
    /\ Len(sent[1].old_menus) = 1
    /\ sent[1].old_menus[1].restaurant = restaurants[2].name

\* --------------------------------------- C22: one notification at most

\* C22: in every run the notifier is called at most once, and only at the
\* end of the last pass: while the run is going on, and so in every pass
\* that a sleep or another pass follows, no call has been made, and the step
\* that makes the call ends the run.
C22_NotifiedOnceAtTheEnd ==
    /\ [](Len(sent) <= 1)
    /\ [](sent # <<>> => PassesOver)
    /\ [](pc \in {"start", "scrape", "evaluate", "sleep", "notify", "aborted"}
             => sent = <<>>)
    /\ [][sent' # sent =>
             /\ sent = <<>> /\ Len(sent') = 1
             /\ pc \in {"evaluate", "notify"}
             /\ pc' \in {"success", "exhausted", "finished"}
             /\ sent'[1].menu_results = results]_vars

\* The first pass gave records but none for today and was followed by a
\* sleep; the second found today's menu, and the notifier was called once.
C22_Witness ==
    /\ pc = "success"
    /\ attempt = 2 /\ sleeps = 1
    /\ Cardinality(produced) = 3
    /\ Len(results) = 1
    /\ Len(sent) = 1

\* ------------------------------------------------- C23: a send that fails

\* The notifier was called and the last call returned False.
SendFailed == sent # <<>> /\ ~sent[Len(sent)].ok

\* The state a run ends in after a pass, by its records alone.
EndOfRun ==
    IF entry = "basic" THEN "finished"
    ELSE IF HasToday(results) THEN "success"
    ELSE "exhausted"

\* C23: a send that fails changes nothing in the course of the run: the run
\* is over in the state it would end in had the send worked, the call is
\* not made again, and no step (no sleep, no further pass) follows.
C23_FailedSendEndsRunAlike ==
    /\ [](SendFailed => (pc = EndOfRun /\ Len(sent) = 1))
    /\ []((sent # <<>> /\ sent[Len(sent)].ok) => (pc = EndOfRun /\ Len(sent) = 1))
    /\ [][SendFailed => UNCHANGED vars]_vars

\* Today's menu was found in the first pass with budget left, the send
\* failed, and the run is over in success after that one call.
C23_Witness ==
    /\ SendFailed
    /\ pc = "success"
    /\ attempt = 1 /\ maxAttempts = MAX_RETRIES
    /\ sleeps = 0
    /\ Len(sent) = 1

\* --------------------------------- C24: the entry point without retries

\* The run is of lunch_menu.py main, or of lunch_menu_playwright.py main with
\* a budget of one attempt.
SinglePass == entry = "basic" \/ (entry = "playwright" /\ maxAttempts = 1)

\* The lists the notifier was handed, call by call.
Payloads == [k \in 1..Len(sent) |-> sent[k].menu_results]

\* What a run of one pass hands the notifier, by what the scrapes of the
\* restaurants came to: the records returned, in one call, or nothing when
\* there is none.
OnePassPayloads(log) ==
    IF Returned(log) = <<>> THEN <<>> ELSE <<Returned(log)>>

\* C24: lunch_menu.py main and lunch_menu_playwright.py main with
\* maxAttempts = 1 do the same for the same outcomes of the restaurants:
\* one pass over all restaurants, no sleep, and one call of the notifier
\* with the records of the pass, or none when there is no record.
C24_BasicIsPollingWithBudgetOne ==
    SinglePass =>
        /\ sleeps = 0 /\ pc # "sleep"
        /\ attempt = (IF entry = "basic" \/ pc \in {"start", "aborted"} THEN 0 ELSE 1)
        /\ PassesOver =>
              /\ Len(calls) = Len(restaurants)
              /\ results = Returned(calls)
              /\ Payloads = OnePassPayloads(calls)

\* lunch_menu.py main is over: the first restaurant gave a record for today,
\* the second failed, the third gave a stale one, and the notifier was
\* called once with the two records.
C24_Witness ==
    /\ entry = "basic" /\ pc = "finished"
    /\ Len(calls) = 3
    /\ calls[2].returned = None
    /\ Payloads = <<Returned(calls)>>
    /\ Len(Returned(calls)) = 2
    /\ Returned(calls)[1].is_today
    /\ ~Returned(calls)[2].is_today

=============================================================================
